---------------------------- MODULE Spec2Model ----------------------------
(***************************************************************************)
(* A model of koharu-renderer's text layout core:                          *)
(*   src/koharu-renderer/src/hyphenation.rs  word selection and splitting  *)
(*   src/koharu-renderer/src/layout.rs       line composer, geometry,      *)
(*                                           binary search and auto-fit    *)
(* A text is a sequence of characters (one-character strings).  Offsets    *)
(* and ranges are in bytes, as in the source; lengths called "chars" are   *)
(* character counts.  Lengths and coordinates are integers (pixels).       *)
(***************************************************************************)
EXTENDS Integers, Sequences, FiniteSets, TLC

VARIABLES
  hy,             \* hyphenation.rs: one call of find_longest_word / split_longest_word
  cp,             \* layout.rs: one call of run_with_size on given break opportunities
  self,           \* the TextLayout: the builder's fields
  run_text,       \* the text the caller passes to run
  pc,             \* where the run(text) call stands
  processed_text, \* run_auto: the text of the current iteration
  iteration,      \* run_auto: the loop counter
  low, high,      \* binary_search_font_size: the interval still to search
  best,           \* binary_search_font_size: Option<LayoutRun>, <<>> or <<layout>>
  layout,         \* run_auto: the layout of the latest binary search
  result,         \* what run(text) returned
  tested,         \* history: the sizes the current binary search tested, with their fit
  searches        \* history: the binary searches this call started

runVars == <<self, run_text, pc, processed_text, iteration, low, high, best, layout,
             result, tested, searches>>

vars == <<hy, cp, runVars>>

-----------------------------------------------------------------------------
(* Generic helpers *)

Rep(c, n) == [i \in 1..n |-> c]

Abs(x) == IF x < 0 THEN -x ELSE x

Max2(a, b) == IF a >= b THEN a ELSE b

Min2(a, b) == IF a <= b THEN a ELSE b

\* Option<usize>::None
None == -1

-----------------------------------------------------------------------------
(* Characters *)

NL == "\n"

HYPHEN == "-"

\* A character is a string naming it.  U+2026 (horizontal ellipsis) is one
\* character of three bytes and a member of is_word_punctuation; U+00F6 is
\* a letter of two bytes.
ELLIPSIS == "U+2026"

OUML == "U+00F6"

\* len_utf8 of a character
ByteLen(c) == IF c = ELLIPSIS THEN 3 ELSE IF c = OUML THEN 2 ELSE 1

\* str::len: the byte length of a text
RECURSIVE StrLen(_)
StrLen(t) == IF t = <<>> THEN 0 ELSE ByteLen(Head(t)) + StrLen(Tail(t))

\* chars().count()
CharCount(t) == Len(t)

\* char::is_whitespace, as split_whitespace uses it
is_whitespace(c) == c \in {" ", NL}

is_word_punctuation(c) == c \in {".", ",", "!", "?", ELLIPSIS}

-----------------------------------------------------------------------------
(* hyphenation.rs *)

\* The hyphenation pattern engines a WordHyphenator may hold.
HyphEngines == {"none", "all", "even"}

\* Standard::hyphenate(word): the break points of the pattern engine, as
\* character indices strictly inside the word.
EngineBreaks(word, eng) ==
  IF eng = "all" THEN 1..(Len(word) - 1)
  ELSE IF eng = "even" THEN {i \in 1..(Len(word) - 1) : i % 2 = 0}
  ELSE {}

\* hyphenated.iter().collect(): the word cut at the engine's break points,
\* every segment but the last with a hyphen appended.
RECURSIVE segments_from(_, _, _, _)
segments_from(word, B, i, cur) ==
  IF i > Len(word) THEN <<cur>>
  ELSE IF i \in B
       THEN <<Append(Append(cur, word[i]), HYPHEN)>> \o segments_from(word, B, i + 1, <<>>)
       ELSE segments_from(word, B, i + 1, Append(cur, word[i]))

EngineSegments(word, eng) ==
  IF word = <<>> THEN <<>> ELSE segments_from(word, EngineBreaks(word, eng), 1, <<>>)

\* str::trim_end_matches('-')
RECURSIVE trim_end_hyphens(_)
trim_end_hyphens(s) ==
  IF s # <<>> /\ s[Len(s)] = HYPHEN THEN trim_end_hyphens(SubSeq(s, 1, Len(s) - 1))
  ELSE s

RECURSIVE points_from(_, _, _)
points_from(breaks, k, char_pos) ==
  IF k > Len(breaks) - 1 THEN <<>>
  ELSE LET pos == char_pos + CharCount(trim_end_hyphens(breaks[k]))
       IN  <<pos>> \o points_from(breaks, k + 1, pos)

hyphenation_points(word, eng) ==
  LET breaks == EngineSegments(word, eng)
  IN  IF Len(breaks) <= 1 THEN <<>> ELSE points_from(breaks, 1, 0)

\* Iterator::min_by_key: the first of the equally minimal elements
RECURSIVE min_by_key_from(_, _, _, _)
min_by_key_from(points, k, target, acc) ==
  IF k > Len(points) THEN acc
  ELSE min_by_key_from(points, k + 1, target,
         IF Abs(points[k] - target) < Abs(acc - target) THEN points[k] ELSE acc)

find_split_point(word, eng) ==
  LET points == hyphenation_points(word, eng)
      target == CharCount(word) \div 2
  IN  IF points = <<>> THEN None
      ELSE min_by_key_from(points, 2, target, points[1])

\* str::split_whitespace: the maximal runs of non-whitespace characters
RECURSIVE split_from(_, _, _)
split_from(text, i, cur) ==
  IF i > Len(text) THEN (IF cur = <<>> THEN <<>> ELSE <<cur>>)
  ELSE IF is_whitespace(text[i])
       THEN (IF cur = <<>> THEN <<>> ELSE <<cur>>) \o split_from(text, i + 1, <<>>)
       ELSE split_from(text, i + 1, Append(cur, text[i]))

split_whitespace(text) == split_from(text, 1, <<>>)

\* Iterator::max_by_key folds with "keep the later one unless the earlier is
\* strictly greater": the last of the equally maximal elements.
RECURSIVE max_by_key_from(_, _, _)
max_by_key_from(toks, k, acc) ==
  IF k > Len(toks) THEN acc
  ELSE max_by_key_from(toks, k + 1,
         IF CharCount(acc) > CharCount(toks[k]) THEN acc ELSE toks[k])

max_by_key(toks) == max_by_key_from(toks, 2, toks[1])

ByteLongestWord(text) ==
  LET toks == split_whitespace(text)
  IN  IF toks = <<>> THEN <<>>
      ELSE toks[CHOOSE k \in 1..Len(toks) :
             /\ \A j \in 1..Len(toks) : StrLen(toks[j]) <= StrLen(toks[k])
             /\ \A j \in (k + 1)..Len(toks) : StrLen(toks[j]) < StrLen(toks[k])]

find_longest_word(text) ==
  LET toks == split_whitespace(text)
  IN  IF toks = <<>> THEN <<>> ELSE max_by_key(toks)

StripLeadingOnly(word) ==
  LET len == Len(word)
      nonp == {i \in 1..len : ~is_word_punctuation(word[i])}
      start == IF nonp = {} THEN len
               ELSE (CHOOSE i \in nonp : \A j \in nonp : i <= j) - 1
  IN  <<SubSeq(word, 1, start), SubSeq(word, start + 1, len), <<>>>>

\* (prefix, clean, suffix)
strip_punctuation(word) ==
  LET len == Len(word)
      nonp == {i \in 1..len : ~is_word_punctuation(word[i])}
      \* 0-based position of the first / one past the last non-punctuation
      start == IF nonp = {} THEN len
               ELSE (CHOOSE i \in nonp : \A j \in nonp : i <= j) - 1
      end == IF nonp = {} THEN 0
             ELSE CHOOSE i \in nonp : \A j \in nonp : i >= j
  IN  IF len = 0 THEN <<<<>>, <<>>, <<>>>>
      ELSE IF start >= end THEN <<word, <<>>, <<>>>>
      ELSE <<SubSeq(word, 1, start), SubSeq(word, start + 1, end),
             SubSeq(word, end + 1, len)>>

\* the 1-based character index of the first occurrence of pat in text, or 0
find_first(text, pat) ==
  LET occ == {i \in 1..(Len(text) - Len(pat) + 1) :
                SubSeq(text, i, i + Len(pat) - 1) = pat}
  IN  IF occ = {} THEN 0 ELSE CHOOSE i \in occ : \A j \in occ : i <= j

\* str::replace: every non-overlapping occurrence, left to right
RECURSIVE replace_all(_, _, _)
replace_all(text, pat, to) ==
  LET i == find_first(text, pat)
  IN  IF i = 0 \/ pat = <<>> THEN text
      ELSE SubSeq(text, 1, i - 1) \o to
             \o replace_all(SubSeq(text, i + Len(pat), Len(text)), pat, to)

\* str::replacen(pat, to, 1) for a non-empty pattern
replacen_first(text, pat, to) ==
  LET i == find_first(text, pat)
  IN  IF i = 0 THEN text
      ELSE SubSeq(text, 1, i - 1) \o to \o SubSeq(text, i + Len(pat), Len(text))

SplitAlways(text, word, eng) ==
  LET sp == strip_punctuation(word)
      clean == sp[2]
      found == find_split_point(clean, eng)
      pos == IF found = None THEN CharCount(clean) \div 2 ELSE found
  IN  IF word = <<>> \/ pos <= 0 \/ pos >= Len(clean) THEN text
      ELSE replacen_first(text, word,
             sp[1] \o SubSeq(clean, 1, pos) \o <<HYPHEN, " ">>
               \o SubSeq(clean, pos + 1, Len(clean)) \o sp[3])

split_longest_word(text, word, eng) ==
  LET sp == strip_punctuation(word)
      prefix == sp[1]
      clean_word == sp[2]
      suffix == sp[3]
      split_pos == find_split_point(clean_word, eng)
  IN  IF word = <<>> THEN text
      ELSE IF clean_word = <<>> \/ CharCount(clean_word) < 2 THEN text
      ELSE IF split_pos = None THEN text
      ELSE IF split_pos = 0 \/ split_pos >= Len(clean_word) THEN text
      ELSE replacen_first(text, word,
             prefix \o SubSeq(clean_word, 1, split_pos) \o <<HYPHEN, " ">>
               \o SubSeq(clean_word, split_pos + 1, Len(clean_word)) \o suffix)

-----------------------------------------------------------------------------
(* layout.rs: collaborators (fonts, shaper, line-break analyzer) *)

\* f32::INFINITY, the value of an unset max_width / max_height
Infinity == -1

Leq(x, max) == max = Infinity \/ x <= max

Gt(x, max) == ~Leq(x, max)

\* WritingMode::is_vertical
is_vertical(mode) == mode = "VerticalRl"

\* The fonts of the model: ascent, descent and leading in tenths of the em.
Fonts ==
  {[asc |-> 8, desc |-> 2, lead |-> 0], [asc |-> 9, desc |-> 3, lead |-> 1]}

\* font_ref.metrics(Size::new(font_size), ..)
MetricsAscent(font, size) == (font.asc * size) \div 10

\* -metrics.descent
MetricsDescent(font, size) == (font.desc * size) \div 10

MetricsLeading(font, size) == (font.lead * size) \div 10

\* The shaper's glyph for one character: advances and offsets at the size.
\* Horizontal glyphs advance along x; vertical glyphs advance downwards
\* (negative y, the shaper's y axis pointing up) and are centred on the
\* column's baseline.
GlyphXAdvance(ch, size, mode) ==
  IF is_vertical(mode) \/ ch = NL THEN 0
  ELSE IF ch \in {"a", "b", "c", "d", OUML} THEN size \div 2
  ELSE size \div 4

GlyphYAdvance(ch, size, mode) ==
  IF ~is_vertical(mode) \/ ch = NL THEN 0
  ELSE IF ch = " " THEN -(size \div 2)
  ELSE -size

GlyphXOffset(ch, size, mode) == IF is_vertical(mode) THEN -(size \div 4) ELSE 0

GlyphYOffset(ch, size, mode) == IF is_vertical(mode) THEN -((size * 4) \div 5) ELSE 0

\* glyph_metrics.bounds(gid): <<x_min, y_min, x_max, y_max>> in the font's
\* y-up frame, or <<>> for a glyph without an outline
GlyphBounds(ch, size) ==
  IF ch \in {" ", NL} THEN <<>>
  ELSE IF ch \in {"a", "b", "c", "d", OUML} THEN <<0, 0, size \div 2, size \div 2>>
  ELSE IF ch = HYPHEN THEN <<0, size \div 5, size \div 4, size \div 4>>
  ELSE <<0, -(size \div 10), size \div 4, size \div 10>>

\* the byte offset of the character at index i (1-based) of a text
ByteOffset(text, i) == StrLen(SubSeq(text, 1, i - 1))

\* the index of the character at a byte offset, scanning from index i at
\* byte offset at
RECURSIVE char_at(_, _, _, _)
char_at(text, offset, i, at) ==
  IF at >= offset \/ i > Len(text) THEN i
  ELSE char_at(text, offset, i + 1, at + ByteLen(text[i]))

\* shaper.shape(&text[start..end], ..) from character i on: one glyph per
\* character, its cluster the byte offset inside the segment
RECURSIVE shape_from(_, _, _, _, _, _, _)
shape_from(text, i, at, end, size, mode, acc) ==
  IF at >= end \/ i > Len(text) THEN acc
  ELSE shape_from(text, i + 1, at + ByteLen(text[i]), end, size, mode,
         [glyphs |-> Append(acc.glyphs, [cluster |-> at - acc.start, ch |-> text[i]]),
          x_advance |-> acc.x_advance + GlyphXAdvance(text[i], size, mode),
          y_advance |-> acc.y_advance + GlyphYAdvance(text[i], size, mode),
          start |-> acc.start])

\* first is the index of the character at byte offset start
shape(text, first, start, end, size, mode) ==
  shape_from(text, first, start, end, size, mode,
             [glyphs |-> <<>>, x_advance |-> 0, y_advance |-> 0, start |-> start])

\* LineBreaker::line_break_opportunities: the opportunities of a text, from
\* offset 0 to the byte length; one after every run of spaces and after
\* every hyphen, a mandatory one after every line feed.
BreakAfter(text, i) ==
  /\ i < Len(text)
  /\ \/ text[i] = NL
     \/ text[i] = " " /\ text[i + 1] # " "
     \/ text[i] = HYPHEN /\ ~is_whitespace(text[i + 1])

\* at is the byte offset of the character at index i
RECURSIVE opportunities_from(_, _, _)
opportunities_from(text, i, at) ==
  IF i > Len(text) THEN <<>>
  ELSE (IF BreakAfter(text, i)
        THEN <<[offset |-> at + ByteLen(text[i]), is_mandatory |-> text[i] = NL]>>
        ELSE <<>>) \o opportunities_from(text, i + 1, at + ByteLen(text[i]))

line_break_opportunities(text) ==
  <<[offset |-> 0, is_mandatory |-> FALSE]>>
    \o opportunities_from(text, 1, 0)
    \o (IF text = <<>> THEN <<>>
        ELSE <<[offset |-> StrLen(text),
                is_mandatory |-> text[Len(text)] = NL]>>)

-----------------------------------------------------------------------------
(* layout.rs: run_with_size *)

\* LayoutLine::default()
DefaultLine == [glyphs |-> <<>>, range |-> <<0, 0>>, advance |-> 0, baseline |-> <<0, 0>>]

max_extent(cfg) == IF is_vertical(cfg.writing_mode) THEN cfg.max_height ELSE cfg.max_width

ClustersUnadjusted(glyphs, start) == glyphs

\* glyph.cluster += start as u32
AdjustClusters(glyphs, start) ==
  [k \in 1..Len(glyphs) |-> [glyphs[k] EXCEPT !.cluster = @ + start]]

BreaksBeforeUnguarded(is_mandatory, would_overflow, has_content) ==
  is_mandatory \/ would_overflow

\* the finalize test of the composer
BreaksBefore(is_mandatory, would_overflow, has_content) ==
  (is_mandatory \/ would_overflow) /\ has_content

\* for window in breaks.windows(2) { .. }, from window w on
\* (first is the index of the character at the window's start offset)
RECURSIVE compose_from(_, _, _, _, _, _, _, _, _)
compose_from(text, breaks, w, first, lines, current, line_offset, size, cfg) ==
  IF w > Len(breaks) - 1
  THEN \* Finalize last line
       IF current.glyphs # <<>>
       THEN Append(lines, [current EXCEPT !.range = <<line_offset, StrLen(text)>>])
       ELSE lines
  ELSE LET start == breaks[w].offset
           end == breaks[w + 1].offset
           shaped == shape(text, first, start, end, size, cfg.writing_mode)
           advance == IF is_vertical(cfg.writing_mode) THEN shaped.y_advance
                      ELSE shaped.x_advance
           would_overflow ==
             IF is_vertical(cfg.writing_mode)
             THEN Gt(Abs(current.advance) + Abs(advance), max_extent(cfg))
             ELSE Gt(current.advance + advance, max_extent(cfg))
           has_content == current.glyphs # <<>>
           is_mandatory == breaks[w + 1].is_mandatory
           brk == BreaksBefore(is_mandatory, would_overflow, has_content)
           lines1 == IF brk THEN Append(lines, [current EXCEPT !.range = <<line_offset, start>>])
                     ELSE lines
           current1 == IF brk THEN DefaultLine ELSE current
           offset1 == IF brk THEN start ELSE line_offset
       IN  compose_from(text, breaks, w + 1, first + Len(shaped.glyphs), lines1,
             [current1 EXCEPT !.glyphs = @ \o AdjustClusters(shaped.glyphs, start),
                              !.advance = @ + advance],
             offset1, size, cfg)

compose(text, breaks, size, cfg) ==
  compose_from(text, breaks, 1, char_at(text, breaks[1].offset, 1, 0), <<>>,
               DefaultLine, 0, size, cfg)

line_height(font, size) ==
  Max2(MetricsAscent(font, size) + MetricsDescent(font, size) + MetricsLeading(font, size),
       size)

PlaceBaselinesBySize(lines, size, cfg) ==
  LET ascent == MetricsAscent(cfg.font, size)
      line_count == Len(lines)
  IN  [k \in 1..line_count |->
         [lines[k] EXCEPT !.baseline =
            IF is_vertical(cfg.writing_mode)
            THEN <<(Max2(line_count - 1, 0) - (k - 1)) * size + size \div 2, ascent>>
            ELSE <<0, ascent + (k - 1) * size>>]]

\* line.baseline of line i (0-based) of line_count lines; the vertical half
\* pitch is line_height * 0.5
place_baselines(lines, size, cfg) ==
  LET lh == line_height(cfg.font, size)
      ascent == MetricsAscent(cfg.font, size)
      line_count == Len(lines)
  IN  [k \in 1..line_count |->
         [lines[k] EXCEPT !.baseline =
            IF is_vertical(cfg.writing_mode)
            THEN <<(Max2(line_count - 1, 0) - (k - 1)) * lh + lh \div 2, ascent>>
            ELSE <<0, ascent + (k - 1) * lh>>]]

SetMax(S) == CHOOSE x \in S : \A y \in S : x >= y

SetMin(S) == CHOOSE x \in S : \A y \in S : x <= y

ComputeBoundsAsHorizontal(lines, lh, descent, cfg) ==
  IF lines = <<>> THEN <<0, 0>>
  ELSE <<SetMax({0} \cup {lines[k].advance : k \in 1..Len(lines)}),
         (Len(lines) - 1) * lh + lines[1].baseline[2] + descent>>

compute_bounds(lines, lh, descent, cfg) ==
  IF lines = <<>> THEN <<0, 0>>
  ELSE IF ~is_vertical(cfg.writing_mode)
       THEN <<SetMax({0} \cup {lines[k].advance : k \in 1..Len(lines)}),
              (Len(lines) - 1) * lh + lines[1].baseline[2] + descent>>
       ELSE <<Len(lines) * lh,
              SetMax({0} \cup {Abs(lines[k].advance) : k \in 1..Len(lines)})
                + lines[1].baseline[2] + descent>>

InkAddFirstCorner(acc, x0, y0, x1, y1) ==
  IF acc = <<>> THEN <<x0, y0, x0, y0>>
  ELSE <<Min2(acc[1], x0), Min2(acc[2], y0), Max2(acc[3], x0), Max2(acc[4], y0)>>

\* the accumulator of ink_bounds: no bounds yet, or <<min_x, min_y, max_x, max_y>>
InkAdd(acc, x0, y0, x1, y1) ==
  IF acc = <<>> THEN <<Min2(x0, x1), Min2(y0, y1), Max2(x0, x1), Max2(y0, y1)>>
  ELSE <<Min2(Min2(acc[1], x0), x1), Min2(Min2(acc[2], y0), y1),
         Max2(Max2(acc[3], x0), x1), Max2(Max2(acc[4], y0), y1)>>

\* for g in &line.glyphs { .. }, from glyph k on, the pen at (x, y)
RECURSIVE ink_line_from(_, _, _, _, _, _, _)
ink_line_from(g, k, x, y, size, mode, acc) ==
  IF k > Len(g) THEN acc
  ELSE LET ch == g[k].ch
           b == GlyphBounds(ch, size)
       IN  ink_line_from(g, k + 1,
             x + GlyphXAdvance(ch, size, mode), y - GlyphYAdvance(ch, size, mode),
             size, mode,
             IF b = <<>> THEN acc
             ELSE InkAdd(acc,
                    x + GlyphXOffset(ch, size, mode) + b[1],
                    (y - GlyphYOffset(ch, size, mode)) - b[4],
                    x + GlyphXOffset(ch, size, mode) + b[3],
                    (y - GlyphYOffset(ch, size, mode)) - b[2]))

RECURSIVE ink_lines_from(_, _, _, _, _)
ink_lines_from(lines, l, size, mode, acc) ==
  IF l > Len(lines) THEN acc
  ELSE ink_lines_from(lines, l + 1, size, mode,
         ink_line_from(lines[l].glyphs, 1, lines[l].baseline[1], lines[l].baseline[2],
                       size, mode, acc))

\* Some(<<min_x, min_y, max_x, max_y>>) as a one-element sequence, None as <<>>
ink_bounds(lines, size, mode) ==
  LET acc == ink_lines_from(lines, 1, size, mode, <<>>)
  IN  IF acc = <<>> THEN <<>> ELSE <<acc>>

\* const PAD: f32 = 1.0
PAD == 1

\* run_with_size without its error exits (font.skrifa()? and shape(..)?)
run_with_size(text, breaks, size, cfg) ==
  LET descent == MetricsDescent(cfg.font, size)
      lh == line_height(cfg.font, size)
      lines == place_baselines(compose(text, breaks, size, cfg), size, cfg)
      coarse == compute_bounds(lines, lh, descent, cfg)
      ink == ink_bounds(lines, size, cfg.writing_mode)
  IN  IF ink = <<>>
      THEN [lines |-> lines, width |-> coarse[1], height |-> coarse[2], font_size |-> size]
      ELSE LET min_x == ink[1][1] - PAD
               min_y == ink[1][2] - PAD
               max_x == ink[1][3] + PAD
               max_y == ink[1][4] + PAD
           IN  [lines |-> [k \in 1..Len(lines) |->
                             [lines[k] EXCEPT !.baseline = <<@[1] - min_x, @[2] - min_y>>]],
                width |-> Max2(max_x - min_x, 0),
                height |-> Max2(max_y - min_y, 0),
                font_size |-> size]

-----------------------------------------------------------------------------
(* layout.rs: run, run_auto, binary_search_font_size *)

\* font_size: None
NoFontSize == 0

\* let mut low = 6; let mut high = 300;
LowSize == 6

HighSize == 300

MAX_ITERATIONS == 5

\* MIN_FILL_RATIO = 0.5 = MinFillNum / MinFillDen
MinFillNum == 1

MinFillDen == 2

MIN_WORD_LEN == 6

NoLayout == [lines |-> <<>>, width |-> 0, height |-> 0, font_size |-> 0]

NoResult == [kind |-> "none", layout |-> NoLayout]

FitsWidthOnly(l, max_width, max_height) == Leq(l.width, max_width)

\* layout.width <= max_width && layout.height <= max_height
Fits(l, max_width, max_height) == Leq(l.width, max_width) /\ Leq(l.height, max_height)

\* self.run_with_size(text, size) of the configured layout
Trial(t, size) == run_with_size(t, line_break_opportunities(t), size, self)

\* let mid = (low + high) / 2
Mid(lo, hi) == (lo + hi) \div 2

NextLowStuck(mid) == mid

\* low = mid + 1
NextLow(mid) == mid + 1

NextHighSkips(mid) == mid - 2

\* high = mid - 1
NextHigh(mid) == mid - 1

\* box_area.is_finite() && box_area > 0.0, box_area = max_width * max_height
BoxAreaUsable(max_width, max_height) ==
  max_width # Infinity /\ max_height # Infinity /\ max_width * max_height > 0

GoodFillUnguarded(l, max_width, max_height) ==
  IF max_width # Infinity /\ max_height # Infinity
  THEN l.width * l.height * MinFillDen >= max_width * max_height * MinFillNum
  ELSE FALSE

\* fill_ratio >= MIN_FILL_RATIO, fill_ratio being 1.0 without a usable box
GoodFill(l, max_width, max_height) ==
  IF BoxAreaUsable(max_width, max_height)
  THEN l.width * l.height * MinFillDen >= max_width * max_height * MinFillNum
  ELSE TRUE

LastIterationLate(i) == i = MAX_ITERATIONS + 1

\* iteration == MAX_ITERATIONS
LastIteration(i) == i = MAX_ITERATIONS

StartSearch ==
  /\ low' = LowSize
  /\ high' = HighSize
  /\ best' = <<>>
  /\ tested' = {}
  /\ searches' = searches + 1

RunFixedWithinBox ==
  /\ pc = "run"
  /\ self.font_size # NoFontSize
  /\ pc' = "done"
  /\ result' = IF Fits(Trial(run_text, self.font_size), self.max_width, self.max_height)
               THEN [kind |-> "ok", layout |-> Trial(run_text, self.font_size)]
               ELSE [kind |-> "fit_error", layout |-> NoLayout]
  /\ UNCHANGED <<hy, cp, self, run_text, processed_text, iteration, low, high, best, layout,
                 tested, searches>>

\* run: if let Some(font_size) = self.font_size { return self.run_with_size(..) }
RunFixed ==
  /\ pc = "run"
  /\ self.font_size # NoFontSize
  /\ pc' = "done"
  /\ result' = [kind |-> "ok", layout |-> Trial(run_text, self.font_size)]
  /\ UNCHANGED <<hy, cp, self, run_text, processed_text, iteration, low, high, best, layout,
                 tested, searches>>

\* run: the single layout fails in the font or the shaper
RunFixedError ==
  /\ pc = "run"
  /\ self.font_size # NoFontSize
  /\ pc' = "done"
  /\ result' = [kind |-> "trial_error", layout |-> NoLayout]
  /\ UNCHANGED <<hy, cp, self, run_text, processed_text, iteration, low, high, best, layout,
                 tested, searches>>

\* run_auto: !self.auto_word_break || self.hyphenator.is_none()
RunAutoPlain ==
  /\ pc = "run"
  /\ self.font_size = NoFontSize
  /\ ~self.auto_word_break \/ self.hyphenator = "off"
  /\ pc' = "search_plain"
  /\ StartSearch
  /\ UNCHANGED <<hy, cp, self, run_text, processed_text, iteration, layout, result>>

\* run_auto: the iterative approach, entering iteration 0
RunAutoLoop ==
  /\ pc = "run"
  /\ self.font_size = NoFontSize
  /\ self.auto_word_break /\ self.hyphenator # "off"
  /\ pc' = "search_loop"
  /\ processed_text' = run_text
  /\ iteration' = 0
  /\ StartSearch
  /\ UNCHANGED <<hy, cp, self, run_text, layout, result>>

\* binary_search_font_size: one pass of while low <= high { .. }
Probe ==
  /\ pc \in {"search_plain", "search_loop"}
  /\ low <= high
  /\ LET mid == Mid(low, high)
         l == Trial(processed_text, mid)
         fit == Fits(l, self.max_width, self.max_height)
     IN  /\ best' = IF fit THEN <<l>> ELSE best
         /\ low' = IF fit THEN NextLow(mid) ELSE low
         /\ high' = IF fit THEN high ELSE NextHigh(mid)
         /\ tested' = tested \cup {[size |-> mid, fit |-> fit]}
  /\ UNCHANGED <<hy, cp, self, run_text, pc, processed_text, iteration, layout, result, searches>>

\* binary_search_font_size: self.run_with_size(text, size)? returns the
\* trial's error, which run_auto's own ? passes on
ProbeError ==
  /\ pc \in {"search_plain", "search_loop"}
  /\ low <= high
  /\ pc' = "done"
  /\ result' = [kind |-> "trial_error", layout |-> NoLayout]
  /\ UNCHANGED <<hy, cp, self, run_text, processed_text, iteration, low, high, best, layout,
                 tested, searches>>

\* best.ok_or_else(|| anyhow!("failed to layout text within constraints")),
\* returned by run_auto's plain branch or passed on by the loop's ?
SearchFails ==
  /\ pc \in {"search_plain", "search_loop"}
  /\ low > high
  /\ best = <<>>
  /\ pc' = "done"
  /\ result' = [kind |-> "fit_error", layout |-> NoLayout]
  /\ UNCHANGED <<hy, cp, self, run_text, processed_text, iteration, low, high, best, layout,
                 tested, searches>>

\* return self.binary_search_font_size(text, max_width, max_height)
PlainReturns ==
  /\ pc = "search_plain"
  /\ low > high
  /\ best # <<>>
  /\ pc' = "done"
  /\ result' = [kind |-> "ok", layout |-> best[1]]
  /\ UNCHANGED <<hy, cp, self, run_text, processed_text, iteration, low, high, best, layout,
                 tested, searches>>

\* Step 1 of the loop: let layout = self.binary_search_font_size(..)?
LoopSearched ==
  /\ pc = "search_loop"
  /\ low > high
  /\ best # <<>>
  /\ pc' = "check"
  /\ layout' = best[1]
  /\ UNCHANGED <<hy, cp, self, run_text, processed_text, iteration, low, high, best, result,
                 tested, searches>>

ReturnLayout ==
  /\ pc' = "done"
  /\ result' = [kind |-> "ok", layout |-> layout]
  /\ UNCHANGED <<hy, cp, self, run_text, processed_text, iteration, low, high, best, layout,
                 tested, searches>>

\* Step 3: fill_ratio >= MIN_FILL_RATIO || iteration == MAX_ITERATIONS
ReturnFilled ==
  /\ pc = "check"
  /\ GoodFill(layout, self.max_width, self.max_height) \/ LastIteration(iteration)
  /\ ReturnLayout

\* Step 4: longest.chars().count() <= MIN_WORD_LEN
ReturnUnsplittable ==
  /\ pc = "check"
  /\ ~(GoodFill(layout, self.max_width, self.max_height) \/ LastIteration(iteration))
  /\ CharCount(find_longest_word(processed_text)) <= MIN_WORD_LEN
  /\ ReturnLayout

\* Step 5: new_text == processed_text
ReturnNoSplit ==
  /\ pc = "check"
  /\ ~(GoodFill(layout, self.max_width, self.max_height) \/ LastIteration(iteration))
  /\ CharCount(find_longest_word(processed_text)) > MIN_WORD_LEN
  /\ split_longest_word(processed_text, find_longest_word(processed_text),
                        self.hyphenator) = processed_text
  /\ ReturnLayout

\* Step 5: processed_text = new_text, and the next iteration's Step 1 begins.
\* (The search after the loop is never reached: iteration MAX_ITERATIONS
\* always returns at Step 3.)
AdoptSplit ==
  /\ pc = "check"
  /\ ~(GoodFill(layout, self.max_width, self.max_height) \/ LastIteration(iteration))
  /\ CharCount(find_longest_word(processed_text)) > MIN_WORD_LEN
  /\ LET new_text == split_longest_word(processed_text,
                       find_longest_word(processed_text), self.hyphenator)
     IN  /\ new_text # processed_text
         /\ processed_text' = new_text
  /\ iteration' = iteration + 1
  /\ pc' = "search_loop"
  /\ StartSearch
  /\ UNCHANGED <<hy, cp, self, run_text, layout, result>>

-----------------------------------------------------------------------------
(* Spec: one call of run(text) on a configured TextLayout *)

LongWordLen == 32

RunTexts ==
  {<<>>,
   <<"a", "b", " ", "c", "d">>,
   <<"a", NL, "b", " ", "c">>,
   Rep("a", LongWordLen),
   <<"a", "b", " ">> \o Rep("a", 8) \o <<".", " ", "c">>}

RunFontSizes == {NoFontSize, 16}

RunMaxWidths == {Infinity, 3, 98, 200, 343}

RunMaxHeights == {Infinity, 12, 800}

IdleHy == [pc |-> "idle"]

IdleCp == [pc |-> "idle"]

Init ==
  /\ hy = IdleHy
  /\ cp = IdleCp
  /\ self \in [writing_mode : {"Horizontal", "VerticalRl"},
              font : Fonts,
              font_size : RunFontSizes,
              max_width : RunMaxWidths,
              max_height : RunMaxHeights,
              auto_word_break : BOOLEAN,
              hyphenator : {"off", "all", "none"}]
  /\ run_text \in RunTexts
  /\ pc = "run"
  /\ processed_text = run_text
  /\ iteration = 0
  /\ low = LowSize
  /\ high = HighSize
  /\ best = <<>>
  /\ layout = NoLayout
  /\ result = NoResult
  /\ tested = {}
  /\ searches = 0

Next ==
  \/ RunFixed
  \/ RunFixedError
  \/ RunAutoPlain
  \/ RunAutoLoop
  \/ Probe
  \/ ProbeError
  \/ SearchFails
  \/ PlainReturns
  \/ LoopSearched
  \/ ReturnFilled
  \/ ReturnUnsplittable
  \/ ReturnNoSplit
  \/ AdoptSplit

Spec == Init /\ [][Next]_vars

-----------------------------------------------------------------------------
(* Claims about run, run_auto and binary_search_font_size, checked under
   Spec *)

\* the lines' ranges partition [0, n)
Partition(lines, n) ==
  /\ Len(lines) >= 1
  /\ lines[1].range[1] = 0
  /\ \A i \in 1..(Len(lines) - 1) : lines[i + 1].range[1] = lines[i].range[2]
  /\ lines[Len(lines)].range[2] = n

\* C1: for every non-empty text passed to run(text), at a fixed size or in
\* auto-fit, with or without word splitting, the returned lines partition
\* the caller's text: the first range starts at 0, each range starts where
\* the one before ends, and the last ends at text.len().
C1_LinesPartitionCallersText ==
  (pc = "done" /\ result.kind = "ok" /\ run_text # <<>>) =>
    Partition(result.layout.lines, StrLen(run_text))

\* width <= max_width && height <= max_height
WithinBox(l) == Leq(l.width, self.max_width) /\ Leq(l.height, self.max_height)

\* the layout of the text being searched, at size t, is within the box
FitAt(t) == WithinBox(Trial(processed_text, t))

\* binary_search_font_size is about to return its best layout
SearchReturns == pc \in {"search_plain", "search_loop"} /\ low > high /\ best # <<>>

\* the sizes of [6, 300] at which the layout of the searched text is within
\* the box
FittingSizes == {t \in LowSize..HighSize : FitAt(t)}

\* C3 (as claimed): binary_search_font_size returns the layout at the
\* largest size that fits: the size s is in [6, 300], the layout at s is
\* within the box, and no size t with s < t <= 300 has a layout within it.
C3_LargestFittingSize ==
  SearchReturns =>
    LET s == best[1].font_size
    IN  /\ s \in LowSize..HighSize
        /\ best[1] = Trial(processed_text, s)
        /\ WithinBox(best[1])
        /\ \A t \in FittingSizes : t <= s

\* C3 (amended): binary_search_font_size returns the layout at a size s in
\* [6, 300] that is within the box, such that s = 300 or the layout at
\* s + 1 is not within the box, and no size the search tested above s is
\* within the box; s is the largest fitting size whenever every size below
\* a fitting size fits as well.
C3_LocallyLargestFittingSize ==
  SearchReturns =>
    LET s == best[1].font_size
        fitting == FittingSizes
    IN  /\ s \in LowSize..HighSize
        /\ best[1] = Trial(processed_text, s)
        /\ WithinBox(best[1])
        /\ s = HighSize \/ s + 1 \notin fitting
        /\ \A r \in tested : r.size > s => r.size \notin fitting
        /\ (\A t \in fitting : t = LowSize \/ t - 1 \in fitting)
             => \A t \in fitting : t <= s

\* the search returns a size although a larger size fits
C3_Witness ==
  /\ SearchReturns
  /\ \E t \in FittingSizes : t > best[1].font_size

\* C4: every layout run(text) returns in auto-fit mode, through the plain
\* binary search or any exit of the hyphenation loop, has width <= max_width
\* and height <= max_height, and an integer font_size in [6, 300].
C4_AutoFitWithinBox ==
  (pc = "done" /\ self.font_size = NoFontSize /\ result.kind = "ok") =>
    /\ WithinBox(result.layout)
    /\ result.layout.font_size \in LowSize..HighSize

\* the loop returns the layout of a split text in a finite box
C4_Witness ==
  /\ pc = "done"
  /\ self.font_size = NoFontSize
  /\ result.kind = "ok"
  /\ searches >= 2
  /\ self.max_width # Infinity
  /\ self.max_height # Infinity
  /\ result.layout.font_size > LowSize

\* the sizes the finished or interrupted search tested whose layout is
\* within the box
TestedFits == {r \in tested : FitAt(r.size)}

\* C5: binary_search_font_size returns the fit error exactly when none of
\* the sizes it tested gave a layout within the box; when one did, it
\* returns the recorded best layout (the one of the largest such size); a
\* trial's error ends the search at once and is returned, with no layout.
C5_FitErrorIffNoTestedSizeFits ==
  /\ (pc = "done" /\ self.font_size = NoFontSize /\ result.kind = "fit_error") =>
       low > high /\ tested # {} /\ TestedFits = {}
  /\ (pc \in {"search_plain", "search_loop"} /\ low > high /\ TestedFits = {}) =>
       best = <<>> /\ ENABLED SearchFails
  /\ (pc \in {"done", "check"} /\ self.font_size = NoFontSize
        /\ (pc = "done" => result.kind = "ok")) =>
       /\ TestedFits # {}
       /\ best # <<>>
       /\ \A r \in TestedFits : r.size <= best[1].font_size
       /\ best[1] = Trial(processed_text, best[1].font_size)
       /\ pc = "done" => result.layout = best[1]
       /\ pc = "check" => layout = best[1]
  /\ (pc = "done" /\ self.font_size = NoFontSize /\ result.kind = "trial_error") =>
       low <= high /\ result.layout = NoLayout

\* a search ends in the fit error after testing several sizes
C5_Witness ==
  /\ pc = "done"
  /\ self.font_size = NoFontSize
  /\ result.kind = "fit_error"
  /\ Cardinality(tested) >= 2

\* a trial's error cuts a search short after a size fit
C5_WitnessTrialError ==
  /\ pc = "done"
  /\ self.font_size = NoFontSize
  /\ result.kind = "trial_error"
  /\ best # <<>>

\* the steps one binary search can take, with room for its return
SearchSpan == HighSize - LowSize + 4

\* a natural number that every step of run(text) strictly decreases
Variant ==
  IF pc = "run" THEN (MAX_ITERATIONS + 2) * SearchSpan
  ELSE IF pc \in {"search_plain", "search_loop"}
       THEN (MAX_ITERATIONS - iteration) * SearchSpan + (high - low + 2) + 1
  ELSE IF pc = "check" THEN (MAX_ITERATIONS - iteration) * SearchSpan + 1
  ELSE 0

\* a call that has not returned can take a step: at each position of
\* run(text) the guard of one of its exits or of its next probe holds
CanStep ==
  /\ pc \in {"run", "search_plain", "search_loop", "check", "done"}
  /\ pc = "run" => ENABLED RunFixedError \/ ENABLED RunAutoPlain \/ ENABLED RunAutoLoop
  /\ pc \in {"search_plain", "search_loop"} =>
       ENABLED ProbeError \/ ENABLED SearchFails \/ ENABLED PlainReturns \/ ENABLED LoopSearched
  /\ pc = "check" =>
       \/ ENABLED ReturnFilled
       \/ ENABLED ReturnUnsplittable
       \/ CharCount(find_longest_word(processed_text)) > MIN_WORD_LEN

\* a probe leaves an interval strictly inside the one it found, whichever
\* branch it takes
ProbeShrinks ==
  (pc \in {"search_plain", "search_loop"} /\ low <= high) =>
    LET mid == Mid(low, high)
    IN  /\ low <= mid /\ mid <= high
        /\ NextLow(mid) > low
        /\ NextHigh(mid) < high

\* C6: every run(text) call terminates: until it has returned it can take a
\* step, and every step decreases a natural number; the interval
\* [low, high] strictly shrinks at each probe, and each loop iteration
\* either returns or adopts a text that differs from the text of the
\* previous iteration.
C6_RunTerminates ==
  /\ [](CanStep /\ ProbeShrinks /\ Variant >= 0)
  /\ [][Variant' < Variant]_vars
  /\ [][(pc \in {"search_plain", "search_loop"} /\ pc' = pc /\ searches' = searches)
          => /\ high' - low' < high - low
             /\ low' >= low
             /\ high' <= high]_vars
  /\ [][pc = "check" => (pc' = "done" \/ processed_text' # processed_text)]_vars

\* a call that adopted a split text has returned
C6_Witness == pc = "done" /\ searches >= 2 /\ result.kind = "ok"

\* C7 (as claimed): the loop body runs at most 5 times, so at most 5 binary
\* searches are performed within one run(text) call.
C7_AtMostFiveSearches == searches <= MAX_ITERATIONS

\* C7 (amended): the loop counter runs from 0 to 5 inclusive: within one
\* run(text) call the loop body runs at most 6 times, so at most 6 binary
\* searches are performed and at most 5 split texts are adopted.
C7_AtMostSixSearches ==
  /\ searches <= MAX_ITERATIONS + 1
  /\ iteration <= MAX_ITERATIONS
  /\ pc \in {"search_loop", "check"} => searches = iteration + 1

\* the sixth binary search has run and its layout is returned
C7_Witness == pc = "done" /\ searches = MAX_ITERATIONS + 1 /\ result.kind = "ok"

\* C16: with a font size configured, run(text) performs one layout at
\* that size and returns it with font_size equal to the configured size:
\* no binary search and no word splitting run, whatever auto_word_break and
\* the hyphenator are, and the fit error is never returned, also when the
\* layout exceeds max_width or max_height.
C16_FixedSizeSingleLayout ==
  /\ (pc = "done" /\ self.font_size # NoFontSize) =>
       /\ result.kind \in {"ok", "trial_error"}
       /\ result.kind = "ok" =>
            /\ result.layout = Trial(run_text, self.font_size)
            /\ result.layout.font_size = self.font_size
       /\ searches = 0
       /\ tested = {}
       /\ iteration = 0
       /\ processed_text = run_text
  /\ (pc \notin {"run", "done"}) => self.font_size = NoFontSize

\* a layout wider than max_width is returned although auto word break and
\* a hyphenator are set
C16_Witness ==
  /\ pc = "done"
  /\ self.font_size # NoFontSize
  /\ self.auto_word_break
  /\ self.hyphenator = "all"
  /\ result.kind = "ok"
  /\ self.max_width # Infinity
  /\ result.layout.width > self.max_width

\* binary_search_font_size(t, max_width, max_height) from the interval
\* [lo, hi] on, acc the best layout so far: <<>> for the fit error
RECURSIVE SearchFrom(_, _, _, _)
SearchFrom(t, lo, hi, acc) ==
  IF lo > hi THEN acc
  ELSE LET mid == Mid(lo, hi)
           l == Trial(t, mid)
       IN  IF Fits(l, self.max_width, self.max_height)
           THEN SearchFrom(t, NextLow(mid), hi, <<l>>)
           ELSE SearchFrom(t, lo, NextHigh(mid), acc)

PlainSearch(t) == SearchFrom(t, LowSize, HighSize, <<>>)

\* the conditions under which run_auto may adopt a split text
MayAdoptSplit ==
  /\ self.auto_word_break
  /\ self.hyphenator # "off"
  /\ self.max_width # Infinity /\ self.max_height # Infinity
  /\ self.max_width * self.max_height > 0
  /\ layout.width * layout.height * 2 < self.max_width * self.max_height
  /\ iteration < MAX_ITERATIONS
  /\ CharCount(find_longest_word(processed_text)) > MIN_WORD_LEN

\* C18: run_auto adopts a split text only when auto word break and a
\* hyphenator are set, max_width x max_height is finite and positive, the
\* latest layout covers less than half of it, fewer than 5 splits have been
\* adopted and the longest token has more than 6 characters; when
\* max_width or max_height is unset, or the first layout fills at least
\* half the box, the text is never modified and the result is that of the
\* plain binary search on the original text.
C18_SplitOnlyWhenUnderfilled ==
  /\ [][processed_text' # processed_text =>
          /\ pc = "check"
          /\ layout = best[1]
          /\ iteration' = iteration + 1
          /\ MayAdoptSplit]_vars
  /\ [][(pc = "check" /\ iteration = 0
           /\ (\/ self.max_width = Infinity
               \/ self.max_height = Infinity
               \/ layout.width * layout.height * 2 >= self.max_width * self.max_height))
          => /\ pc' = "done"
             /\ result' = [kind |-> "ok", layout |-> layout]]_vars
  /\ []((pc = "done" /\ self.font_size = NoFontSize /\ processed_text = run_text) =>
          /\ searches = 1
          /\ result.kind = "ok" => <<result.layout>> = PlainSearch(run_text)
          /\ result.kind = "fit_error" => PlainSearch(run_text) = <<>>)
  /\ []((self.max_width = Infinity \/ self.max_height = Infinity) =>
          processed_text = run_text)

\* a split text has been adopted and searched
C18_Witness ==
  /\ pc = "done"
  /\ processed_text # run_text
  /\ result.kind = "ok"

\* the first layout of the loop fills half of a finite box and is returned
C18_WitnessFilled ==
  /\ pc = "done"
  /\ self.auto_word_break /\ self.hyphenator # "off"
  /\ self.font_size = NoFontSize
  /\ self.max_width # Infinity /\ self.max_height # Infinity
  /\ result.kind = "ok"
  /\ result.layout.width * result.layout.height * 2 >= self.max_width * self.max_height
  /\ CharCount(find_longest_word(run_text)) > MIN_WORD_LEN

\* C20: in run_auto with word splitting active, if the binary search on
\* the caller's original text finds a fitting size, run(text) does not
\* return the fit error, and the layout it returns is the one the binary
\* search computes for the last adopted text.
C20_SplitKeepsEarlierFit ==
  (pc = "done" /\ self.font_size = NoFontSize /\ self.auto_word_break
     /\ self.hyphenator # "off" /\ PlainSearch(run_text) # <<>>) =>
    /\ result.kind # "fit_error"
    /\ result.kind = "ok" => <<result.layout>> = PlainSearch(processed_text)

-----------------------------------------------------------------------------
(* SpecCompose: run_with_size on any list of line-break opportunities *)

MaxComposeLen == 5

ComposeSize == 16

ComposeExtents == {Infinity, 4, 20, 36}

\* a text of n bytes whose opportunities are marks: a line feed before a
\* mandatory opportunity, a space before a soft one, letters elsewhere; the
\* text ends with the character last
ComposeText(n, marks, last) ==
  [i \in 1..n |-> IF i = n THEN last
                  ELSE IF marks[i] = "none" THEN "a"
                  ELSE IF marks[i] = "mandatory" THEN NL ELSE " "]

RECURSIVE compose_breaks_from(_, _, _)
compose_breaks_from(n, marks, i) ==
  IF i > n THEN <<>>
  ELSE (IF marks[i] = "none" THEN <<>>
        ELSE <<[offset |-> i, is_mandatory |-> marks[i] = "mandatory"]>>)
         \o compose_breaks_from(n, marks, i + 1)

ComposeBreaks(n, marks) ==
  <<[offset |-> 0, is_mandatory |-> FALSE]>> \o compose_breaks_from(n, marks, 1)

ComposeInit ==
  /\ hy = IdleHy
  /\ \E n \in 0..MaxComposeLen :
       \E marks \in [1..n -> {"none", "soft", "mandatory"}] :
         \E mode \in {"Horizontal", "VerticalRl"}, font \in Fonts, ext \in ComposeExtents,
            last \in {"a", " ", NL} :
           /\ n > 0 => marks[n] # "none"
           /\ (n > 0 /\ last = NL) => marks[n] = "mandatory"
           /\ cp = [pc |-> "init",
                    text |-> ComposeText(n, marks, last),
                    breaks |-> ComposeBreaks(n, marks),
                    cfg |-> [writing_mode |-> mode, font |-> font,
                             font_size |-> ComposeSize,
                             max_width |-> IF is_vertical(mode) THEN Infinity ELSE ext,
                             max_height |-> IF is_vertical(mode) THEN ext ELSE Infinity,
                             auto_word_break |-> FALSE, hyphenator |-> "off"],
                    out |-> NoLayout]
  /\ self = [idle |-> TRUE]
  /\ run_text = <<>>
  /\ pc = "idle"
  /\ processed_text = <<>>
  /\ iteration = 0
  /\ low = LowSize
  /\ high = HighSize
  /\ best = <<>>
  /\ layout = NoLayout
  /\ result = NoResult
  /\ tested = {}
  /\ searches = 0

\* self.run_with_size(text, font_size)
Compose ==
  /\ cp.pc = "init"
  /\ cp' = [cp EXCEPT !.pc = "done",
                      !.out = run_with_size(cp.text, cp.breaks, cp.cfg.font_size, cp.cfg)]
  /\ UNCHANGED <<hy, runVars>>

ComposeNext == Compose

SpecCompose == ComposeInit /\ [][ComposeNext]_vars

\* the offsets of (0, text.len()) where one line ends and the next begins
LineBoundaries(lines) == {lines[i].range[2] : i \in 1..(Len(lines) - 1)}

\* the offsets of (0, text.len()) that carry a mandatory opportunity
MandatoryOffsets(breaks, n) ==
  {breaks[k].offset : k \in {j \in 1..Len(breaks) :
      breaks[j].is_mandatory /\ breaks[j].offset > 0 /\ breaks[j].offset < n}}

\* C2: in run_with_size, for every list of line-break opportunities whose
\* segments all yield a glyph, each mandatory opportunity strictly inside
\* the text is a line boundary, and with an unlimited extent the mandatory
\* opportunities are the only line boundaries.
C2_MandatoryBreaksHonored ==
  (cp.pc = "done" /\ cp.text # <<>>) =>
    LET mandatory == MandatoryOffsets(cp.breaks, StrLen(cp.text))
        boundaries == LineBoundaries(cp.out.lines)
    IN  /\ mandatory \subseteq boundaries
        /\ max_extent(cp.cfg) = Infinity => boundaries = mandatory

\* C13: in every layout the composer produces, each glyph's cluster is the
\* byte offset of its character in the whole text and lies within the
\* range of the line that holds the glyph.
C13_ClusterWithinLineRange ==
  cp.pc = "done" =>
    \A l \in 1..Len(cp.out.lines) :
      LET line == cp.out.lines[l]
      IN  \A g \in 1..Len(line.glyphs) :
            LET cluster == line.glyphs[g].cluster
            IN  /\ line.range[1] <= cluster
                /\ cluster < line.range[2]
                /\ \E i \in 1..Len(cp.text) :
                     /\ ByteOffset(cp.text, i) = cluster
                     /\ cp.text[i] = line.glyphs[g].ch

\* a second line holds a glyph that is not the first of its segment
C13_Witness ==
  /\ cp.pc = "done"
  /\ Len(cp.out.lines) >= 2
  /\ \E g \in 1..Len(cp.out.lines[2].glyphs) :
       /\ cp.out.lines[2].glyphs[g].cluster > cp.out.lines[2].range[1]
       /\ \A k \in 1..Len(cp.breaks) :
            cp.breaks[k].offset # cp.out.lines[2].glyphs[g].cluster

\* the lines of the composed text with their baselines before the
\* ink-bounds translation
Untranslated ==
  place_baselines(compose(cp.text, cp.breaks, cp.cfg.font_size, cp.cfg),
                  cp.cfg.font_size, cp.cfg)

\* C14: in the returned layout, in Horizontal mode all lines have the same
\* baseline x and consecutive baseline y's grow by line_height; in
\* VerticalRl mode all lines have the same baseline y and consecutive
\* baseline x's shrink by line_height, the first column being the
\* rightmost; line_height = max(ascent + descent + leading, font_size);
\* the translation subtracts the same offset from every baseline.
C14_BaselinesOnLineHeightPitch ==
  cp.pc = "done" =>
    LET lines == cp.out.lines
        size == cp.cfg.font_size
        font == cp.cfg.font
        pitch == Max2(MetricsAscent(font, size) + MetricsDescent(font, size)
                        + MetricsLeading(font, size), size)
    IN  /\ \A i \in 2..Len(lines) :
             IF is_vertical(cp.cfg.writing_mode)
             THEN /\ lines[i].baseline[2] = lines[1].baseline[2]
                  /\ lines[i - 1].baseline[1] - lines[i].baseline[1] = pitch
                  /\ lines[i].baseline[1] < lines[1].baseline[1]
             ELSE /\ lines[i].baseline[1] = lines[1].baseline[1]
                  /\ lines[i].baseline[2] - lines[i - 1].baseline[2] = pitch
        /\ Len(Untranslated) = Len(lines)
        /\ \A i \in 1..Len(lines) :
             /\ Untranslated[i].baseline[1] - lines[i].baseline[1]
                  = Untranslated[1].baseline[1] - lines[1].baseline[1]
             /\ Untranslated[i].baseline[2] - lines[i].baseline[2]
                  = Untranslated[1].baseline[2] - lines[1].baseline[2]

\* three translated lines whose pitch is the font size, the metrics adding
\* up to less
C14_Witness ==
  /\ cp.pc = "done"
  /\ Len(cp.out.lines) >= 3
  /\ Untranslated[1].baseline # cp.out.lines[1].baseline
  /\ MetricsAscent(cp.cfg.font, cp.cfg.font_size)
       + MetricsDescent(cp.cfg.font, cp.cfg.font_size)
       + MetricsLeading(cp.cfg.font, cp.cfg.font_size) < cp.cfg.font_size

\* three translated columns whose pitch exceeds the font size
C14_WitnessVertical ==
  /\ cp.pc = "done"
  /\ Len(cp.out.lines) >= 3
  /\ is_vertical(cp.cfg.writing_mode)
  /\ Untranslated[1].baseline # cp.out.lines[1].baseline
  /\ line_height(cp.cfg.font, cp.cfg.font_size) > cp.cfg.font_size

\* the pen before glyph g of a line: the baseline moved by the advances of
\* the glyphs before g
RECURSIVE PenBefore(_, _, _, _)
PenBefore(line, g, size, mode) ==
  IF g = 1 THEN line.baseline
  ELSE LET pen == PenBefore(line, g - 1, size, mode)
           ch == line.glyphs[g - 1].ch
       IN  <<pen[1] + GlyphXAdvance(ch, size, mode), pen[2] - GlyphYAdvance(ch, size, mode)>>

\* the ink rectangles <<x0, y0, x1, y1>> of the glyphs of the lines that
\* have ink bounds
InkRects(lines, size, mode) ==
  {LET line == lines[p[1]]
       ch == line.glyphs[p[2]].ch
       pen == PenBefore(line, p[2], size, mode)
       b == GlyphBounds(ch, size)
   IN  <<pen[1] + GlyphXOffset(ch, size, mode) + b[1],
         (pen[2] - GlyphYOffset(ch, size, mode)) - b[4],
         pen[1] + GlyphXOffset(ch, size, mode) + b[3],
         (pen[2] - GlyphYOffset(ch, size, mode)) - b[2]>> :
     p \in {q \in (1..Len(lines)) \X (1..MaxComposeLen) :
              /\ q[2] <= Len(lines[q[1]].glyphs)
              /\ GlyphBounds(lines[q[1]].glyphs[q[2]].ch, size) # <<>>}}

\* C15: when at least one glyph has ink bounds, every glyph's ink
\* rectangle, walked from the translated baselines, lies between 1 and
\* width - 1 in x and between 1 and height - 1 in y; the smallest ink x and
\* y are 1, and width and height are the ink extent plus 2.
C15_InkInsidePaddedBox ==
  LET rects == InkRects(cp.out.lines, cp.cfg.font_size, cp.cfg.writing_mode)
  IN  (cp.pc = "done" /\ rects # {}) =>
        /\ \A r \in rects :
             /\ 1 <= r[1] /\ r[1] <= cp.out.width - 1
             /\ 1 <= r[3] /\ r[3] <= cp.out.width - 1
             /\ 1 <= r[2] /\ r[2] <= cp.out.height - 1
             /\ 1 <= r[4] /\ r[4] <= cp.out.height - 1
        /\ \E r \in rects : Min2(r[1], r[3]) = 1
        /\ \E r \in rects : Min2(r[2], r[4]) = 1
        /\ \E r \in rects : Max2(r[1], r[3]) = cp.out.width - 1
        /\ \E r \in rects : Max2(r[2], r[4]) = cp.out.height - 1

\* ink on two lines, next to glyphs without ink
C15_Witness ==
  /\ cp.pc = "done"
  /\ Len(cp.out.lines) >= 2
  /\ Cardinality(InkRects(cp.out.lines, cp.cfg.font_size, cp.cfg.writing_mode)) >= 3
  /\ \E i \in 1..Len(cp.text) : GlyphBounds(cp.text[i], cp.cfg.font_size) = <<>>

\* the magnitude of the flow-axis advance of segment w of the composed text
SegmentAdvance(w) ==
  LET start == cp.breaks[w].offset
      shaped == shape(cp.text, char_at(cp.text, start, 1, 0), start, cp.breaks[w + 1].offset,
                      cp.cfg.font_size, cp.cfg.writing_mode)
  IN  IF is_vertical(cp.cfg.writing_mode) THEN Abs(shaped.y_advance) ELSE Abs(shaped.x_advance)

\* the segments whose text lies in the range of a line
SegmentsOf(line) ==
  {w \in 1..(Len(cp.breaks) - 1) :
     line.range[1] <= cp.breaks[w].offset /\ cp.breaks[w + 1].offset <= line.range[2]}

\* C17: in the line composer every emitted line built from two or more
\* segments has |advance| <= max_extent; a segment whose advance alone
\* exceeds max_extent is emitted as a line that holds only that segment;
\* and no emitted line has zero glyphs.
C17_LinesWithinExtent ==
  cp.pc = "done" =>
    LET lines == cp.out.lines
    IN  /\ \A l \in 1..Len(lines) :
             /\ lines[l].glyphs # <<>>
             /\ Cardinality(SegmentsOf(lines[l])) >= 2
                  => Leq(Abs(lines[l].advance), max_extent(cp.cfg))
        /\ \A w \in 1..(Len(cp.breaks) - 1) :
             Gt(SegmentAdvance(w), max_extent(cp.cfg)) =>
               \E l \in 1..Len(lines) :
                 /\ lines[l].range = <<cp.breaks[w].offset, cp.breaks[w + 1].offset>>
                 /\ SegmentsOf(lines[l]) = {w}
                 /\ Abs(lines[l].advance) = SegmentAdvance(w)

\* a line of two segments within the extent is followed by a segment that
\* exceeds the extent on a line of its own
C17_Witness ==
  /\ cp.pc = "done"
  /\ max_extent(cp.cfg) # Infinity
  /\ \E l \in 1..(Len(cp.out.lines) - 1) :
       /\ Cardinality(SegmentsOf(cp.out.lines[l])) >= 2
       /\ cp.out.lines[l].advance # 0
       /\ \E w \in SegmentsOf(cp.out.lines[l + 1]) :
            Gt(SegmentAdvance(w), max_extent(cp.cfg))

\* a mandatory opportunity follows empty content: the text begins with a
\* line feed
C17_WitnessMandatoryFirst ==
  /\ cp.pc = "done"
  /\ Len(cp.breaks) >= 3
  /\ cp.breaks[2].is_mandatory
  /\ cp.breaks[2].offset = 1
  /\ Len(cp.out.lines) >= 1

\* C19: when no glyph yields ink bounds, the layout's width and height are
\* the coarse bounds and the baselines are not translated: (0, 0) for no
\* lines; in Horizontal mode the largest line advance and (N - 1) x
\* line_height + lines[0].baseline.y + descent; in VerticalRl mode N x
\* line_height and the largest |line advance| + lines[0].baseline.y +
\* descent.
C19_CoarseBoundsWithoutInk ==
  (cp.pc = "done"
     /\ InkRects(cp.out.lines, cp.cfg.font_size, cp.cfg.writing_mode) = {}) =>
    LET lines == cp.out.lines
        N == Len(lines)
        size == cp.cfg.font_size
        lh == Max2(MetricsAscent(cp.cfg.font, size) + MetricsDescent(cp.cfg.font, size)
                     + MetricsLeading(cp.cfg.font, size), size)
        descent == MetricsDescent(cp.cfg.font, size)
        advances == {Abs(lines[k].advance) : k \in 1..N}
    IN  /\ lines = Untranslated
        /\ IF N = 0 THEN cp.out.width = 0 /\ cp.out.height = 0
           ELSE IF is_vertical(cp.cfg.writing_mode)
           THEN /\ cp.out.width = N * lh
                /\ cp.out.height - lines[1].baseline[2] - descent \in advances
                /\ \A a \in advances : a <= cp.out.height - lines[1].baseline[2] - descent
           ELSE /\ cp.out.width \in advances
                /\ \A a \in advances : a <= cp.out.width
                /\ cp.out.height = (N - 1) * lh + lines[1].baseline[2] + descent

\* two columns of blank glyphs
C19_Witness ==
  /\ cp.pc = "done"
  /\ InkRects(cp.out.lines, cp.cfg.font_size, cp.cfg.writing_mode) = {}
  /\ is_vertical(cp.cfg.writing_mode)
  /\ Len(cp.out.lines) >= 2
  /\ cp.out.height > 0

\* two lines of blank glyphs
C19_WitnessHorizontal ==
  /\ cp.pc = "done"
  /\ InkRects(cp.out.lines, cp.cfg.font_size, cp.cfg.writing_mode) = {}
  /\ ~is_vertical(cp.cfg.writing_mode)
  /\ Len(cp.out.lines) >= 2
  /\ cp.out.width > 0

-----------------------------------------------------------------------------
(* SpecHyph: find_longest_word and split_longest_word on bounded inputs *)

MaxTextLen == 5

HyphAlphabet == {"a", " ", ELLIPSIS, HYPHEN}

RECURSIVE SeqsUpTo(_, _)
SeqsUpTo(S, n) ==
  IF n = 0 THEN {<<>>}
  ELSE LET shorter == SeqsUpTo(S, n - 1)
       IN  shorter \cup {Append(s, c) : s \in {t \in shorter : Len(t) = n - 1}, c \in S}

HyphTexts == SeqsUpTo(HyphAlphabet, MaxTextLen)

\* the words a caller may pass: a token of the text, the empty word, or a
\* word that need not occur in the text
WordsFor(text) ==
  {split_whitespace(text)[k] : k \in 1..Len(split_whitespace(text))}
    \cup {<<>>, <<"a", "a">>, <<"a", "a", ELLIPSIS>>}

HyphInit ==
  /\ \E t \in HyphTexts, eng \in HyphEngines :
       hy = [pc |-> "init", text |-> t, eng |-> eng,
             longest |-> <<>>, word |-> <<>>, out |-> <<>>]
  /\ cp = IdleCp
  /\ self = [idle |-> TRUE]
  /\ run_text = <<>>
  /\ pc = "idle"
  /\ processed_text = <<>>
  /\ iteration = 0
  /\ low = LowSize
  /\ high = HighSize
  /\ best = <<>>
  /\ layout = NoLayout
  /\ result = NoResult
  /\ tested = {}
  /\ searches = 0

\* let longest = find_longest_word(&text);
FindLongest ==
  /\ hy.pc = "init"
  /\ hy' = [hy EXCEPT !.pc = "found", !.longest = find_longest_word(hy.text)]
  /\ UNCHANGED <<cp, runVars>>

\* split_longest_word(&text, &word, hyphenator)
SplitWord ==
  /\ hy.pc = "found"
  /\ \E word \in WordsFor(hy.text) :
       hy' = [hy EXCEPT !.pc = "split", !.word = word,
                        !.out = split_longest_word(hy.text, word, hy.eng)]
  /\ UNCHANGED <<cp, runVars>>

\* strip_punctuation(word)
StripWord ==
  /\ hy.pc = "init"
  /\ \E word \in WordsFor(hy.text) \cup {hy.text} :
       hy' = [hy EXCEPT !.pc = "stripped", !.word = word,
                        !.out = strip_punctuation(word)]
  /\ UNCHANGED <<cp, runVars>>

\* hyphenator.find_split_point(word)
FindSplitPoint ==
  /\ hy.pc = "init"
  /\ \E word \in WordsFor(hy.text) \cup {hy.text} :
       hy' = [hy EXCEPT !.pc = "pointed", !.word = word,
                        !.out = find_split_point(word, hy.eng)]
  /\ UNCHANGED <<cp, runVars>>

HyphNext == FindLongest \/ SplitWord \/ StripWord \/ FindSplitPoint

SpecHyph == HyphInit /\ [][HyphNext]_vars

-----------------------------------------------------------------------------
(* Claims about hyphenation.rs, checked under SpecHyph *)

\* the whitespace-delimited tokens of a text, as spans <<first, last>> of
\* character indices: the maximal runs of non-whitespace characters
TokenSpans(text) ==
  {sp \in (1..Len(text)) \X (1..Len(text)) :
     /\ sp[1] <= sp[2]
     /\ \A k \in sp[1]..sp[2] : ~is_whitespace(text[k])
     /\ sp[1] = 1 \/ is_whitespace(text[sp[1] - 1])
     /\ sp[2] = Len(text) \/ is_whitespace(text[sp[2] + 1])}

SpanChars(sp) == sp[2] - sp[1] + 1

LongestSpans(text) ==
  {sp \in TokenSpans(text) : \A q \in TokenSpans(text) : SpanChars(q) <= SpanChars(sp)}

FirstLongestToken(text) ==
  LET sp == CHOOSE s \in LongestSpans(text) : \A q \in LongestSpans(text) : s[1] <= q[1]
  IN  SubSeq(text, sp[1], sp[2])

LastLongestToken(text) ==
  LET sp == CHOOSE s \in LongestSpans(text) : \A q \in LongestSpans(text) : s[1] >= q[1]
  IN  SubSeq(text, sp[1], sp[2])

\* C8 (as claimed): find_longest_word returns the token with the greatest
\* character count, the FIRST of them in text order when several share that
\* count, and the empty string for a text with no token.
C8_FirstLongestToken ==
  hy.pc \in {"found", "split"} =>
    IF TokenSpans(hy.text) = {} THEN hy.longest = <<>>
    ELSE hy.longest = FirstLongestToken(hy.text)

\* C8 (amended): find_longest_word returns the token with the greatest
\* character count (characters, not bytes), the LAST of them in text order
\* when several share that count, and the empty string for a text with no
\* token.
C8_LastLongestToken ==
  hy.pc \in {"found", "split"} =>
    IF TokenSpans(hy.text) = {} THEN hy.longest = <<>>
    ELSE hy.longest = LastLongestToken(hy.text)

\* two different tokens share the greatest character count
C8_Witness ==
  /\ hy.pc = "found"
  /\ TokenSpans(hy.text) # {}
  /\ FirstLongestToken(hy.text) # LastLongestToken(hy.text)
  /\ hy.longest = LastLongestToken(hy.text)

Occurrences(text, word) ==
  {i \in 1..(Len(text) - Len(word) + 1) : SubSeq(text, i, i + Len(word) - 1) = word}

FirstOccurrence(text, word) ==
  CHOOSE i \in Occurrences(text, word) : \A j \in Occurrences(text, word) : i <= j

\* the case of C9: the hyphenator gives an index k strictly inside the
\* punctuation-stripped part of word, and word occurs in text
C9_Case ==
  /\ hy.pc = "split"
  /\ CharCount(strip_punctuation(hy.word)[2]) >= 2
  /\ find_split_point(strip_punctuation(hy.word)[2], hy.eng) > 0
  /\ find_split_point(strip_punctuation(hy.word)[2], hy.eng)
       < CharCount(strip_punctuation(hy.word)[2])
  /\ Occurrences(hy.text, hy.word) # {}

\* C9: in that case split_longest_word returns text with only the first
\* occurrence of word replaced by p + c[..k] + "- " + c[k..] + s; the text
\* before and after it (every later occurrence included) and p and s are
\* unchanged, and deleting the inserted "- " gives back the original text.
C9_SplitReplacesFirstOccurrence ==
  C9_Case =>
    LET p == strip_punctuation(hy.word)[1]
        c == strip_punctuation(hy.word)[2]
        s == strip_punctuation(hy.word)[3]
        k == find_split_point(c, hy.eng)
        i0 == FirstOccurrence(hy.text, hy.word)
        n == Len(hy.word)
        at == i0 + Len(p) + k
    IN  /\ Len(hy.out) = Len(hy.text) + 2
        /\ SubSeq(hy.out, 1, i0 - 1) = SubSeq(hy.text, 1, i0 - 1)
        /\ SubSeq(hy.out, i0, i0 + n + 1)
             = p \o SubSeq(c, 1, k) \o <<HYPHEN, " ">> \o SubSeq(c, k + 1, Len(c)) \o s
        /\ SubSeq(hy.out, i0 + n + 2, Len(hy.out))
             = SubSeq(hy.text, i0 + n, Len(hy.text))
        /\ SubSeq(hy.out, 1, at - 1) \o SubSeq(hy.out, at + 2, Len(hy.out)) = hy.text

\* word occurs more than once, the first time after the start of the text
C9_Witness ==
  /\ C9_Case
  /\ Cardinality(Occurrences(hy.text, hy.word)) >= 2
  /\ FirstOccurrence(hy.text, hy.word) > 1
  /\ hy.out # hy.text

\* punctuation is stripped from both ends of word and put back
C9_WitnessPunctuation ==
  /\ C9_Case
  /\ strip_punctuation(hy.word)[1] # <<>>
  /\ strip_punctuation(hy.word)[3] # <<>>
  /\ hy.out # hy.text

\* the cases of C10
C10_Case ==
  /\ hy.pc = "split"
  /\ \/ hy.word = <<>>
     \/ Occurrences(hy.text, hy.word) = {}
     \/ CharCount(strip_punctuation(hy.word)[2]) < 2
     \/ find_split_point(strip_punctuation(hy.word)[2], hy.eng) = None

\* C10: split_longest_word returns the text unchanged when word is empty,
\* does not occur in text, has a punctuation-stripped part of fewer than 2
\* characters, or has no split point; applying it again changes nothing.
C10_UnchangedWithoutSplit ==
  C10_Case =>
    /\ hy.out = hy.text
    /\ split_longest_word(hy.out, hy.word, hy.eng) = hy.out

\* the longest word of the text, of two or more characters, has no
\* hyphenation point
C10_Witness ==
  /\ hy.pc = "split"
  /\ hy.word = hy.longest
  /\ Occurrences(hy.text, hy.word) # {}
  /\ CharCount(strip_punctuation(hy.word)[2]) >= 2
  /\ find_split_point(strip_punctuation(hy.word)[2], hy.eng) = None
  /\ hy.out = hy.text

\* the characters of the maximal leading / trailing run of word punctuation
LeadingRun(w) ==
  CHOOSE n \in 0..Len(w) :
    /\ \A i \in 1..n : is_word_punctuation(w[i])
    /\ n = Len(w) \/ ~is_word_punctuation(w[n + 1])

TrailingRun(w) ==
  CHOOSE n \in 0..Len(w) :
    /\ \A i \in (Len(w) - n + 1)..Len(w) : is_word_punctuation(w[i])
    /\ n = Len(w) \/ ~is_word_punctuation(w[Len(w) - n])

\* C11: strip_punctuation(w) returns (prefix, clean, suffix) with
\* prefix + clean + suffix = w; for a word that is not all punctuation,
\* prefix is the maximal leading run of word punctuation, suffix the
\* maximal trailing run, and clean neither starts nor ends with such
\* punctuation; for a word of punctuation only, prefix = w and clean and
\* suffix are empty.
C11_StripPunctuationRoundTrip ==
  hy.pc = "stripped" =>
    LET w == hy.word
        prefix == hy.out[1]
        clean == hy.out[2]
        suffix == hy.out[3]
    IN  /\ prefix \o clean \o suffix = w
        /\ IF \A i \in 1..Len(w) : is_word_punctuation(w[i])
           THEN prefix = w /\ clean = <<>> /\ suffix = <<>>
           ELSE /\ Len(prefix) = LeadingRun(w)
                /\ Len(suffix) = TrailingRun(w)
                /\ clean # <<>>
                /\ ~is_word_punctuation(clean[1])
                /\ ~is_word_punctuation(clean[Len(clean)])

\* punctuation is stripped from both ends of a word
C11_Witness ==
  /\ hy.pc = "stripped"
  /\ hy.out[1] # <<>>
  /\ hy.out[2] # <<>>
  /\ hy.out[3] # <<>>

\* a word of punctuation only is returned as the prefix
C11_WitnessAllPunctuation ==
  /\ hy.pc = "stripped"
  /\ Len(hy.word) >= 2
  /\ hy.out = <<hy.word, <<>>, <<>>>>

\* find_split_point's answer k for word w is the earliest of the engine's
\* break points nearest to floor(chars(w) / 2), or no split without one
CentralBreakPoint(w, eng, k) ==
  LET B == EngineBreaks(w, eng)
      target == CharCount(w) \div 2
  IN  IF B = {} THEN k = None
      ELSE /\ k \in B
           /\ 0 < k /\ k < CharCount(w)
           /\ \A b \in B : Abs(k - target) <= Abs(b - target)
           /\ \A b \in B : Abs(b - target) = Abs(k - target) => k <= b

\* C12: for every word w, words that contain '-' included,
\* find_split_point(w) returns no split exactly when the pattern engine
\* yields no break point, and otherwise a character index k, 0 < k <
\* chars(w), that is one of the engine's break points, minimizes
\* |k - floor(chars(w) / 2)| over them and is the earliest of the equally
\* distant ones.
C12_SplitPointIsCentralBreak ==
  hy.pc = "pointed" => CentralBreakPoint(hy.word, hy.eng, hy.out)

=============================================================================
